---- MODULE Spec2Model ----
(***************************************************************************)
(* Model of the Win32 shell of azul (azul-desktop/src/shell/win32.rs):     *)
(* the startup sequence and the message dispatch loop of run(), the        *)
(* RefCell that guards the shared ApplicationData, Window::create and      *)
(* Window::show, and the native calls they make.  One step of the model    *)
(* is one native call of run() together with the Rust code around it.      *)
(***************************************************************************)
EXTENDS Integers, Sequences, FiniteSets, TLC

\* ---------------------------------------------------------------- bounds
MaxWindows == 1      \* pre-declared windows in App.windows (the root window comes on top)
MaxHandle == 2       \* native window handles are 1..MaxHandle, 0 is the null handle
MaxWParam == 1       \* wParam values of native messages are 0..MaxWParam
MaxErrCode == 1      \* GetLastError() values are 1..MaxErrCode
MaxSweeps == 2       \* iterations of the dispatch loop that are explored
MaxCbShared == 1     \* shared borrows the callback path holds at once
MaxVal == 2          \* the values of a wrapped type T are 0..MaxVal, and NaN where T has one

Handles == 1..MaxHandle
WParams == 0..MaxWParam
ErrCodes == 1..MaxErrCode

\* Option<T>: None is the empty sequence, Some(x) the one-element sequence
None == <<>>
Some(x) == <<x>>
IsSome(o) == o # None
Unwrap(o) == o[1]

VARIABLES
    pc,          \* position of run()
    nWindows,    \* App.windows.len(): the pre-declared window configurations
    hinstance,   \* GetModuleHandleW result: 0 is null
    classReg,    \* RegisterClassW: "none" (not called), "ok", "failed"
    dwm,         \* Option<DwmFunctions>
    gl,          \* Option<GlFunctions> (None until GlFunctions::initialize has run)
    built,       \* the Rc<RefCell<ApplicationData>> has been built
    borrowFlag,  \* RefCell borrow state: 0 unused, n > 0 readers, -1 one writer
    runExcl,     \* run() holds the RefMut of line 141
    cbShared,    \* Refs held through a leaked SharedApplicationData clone
    cbExcl,      \* RefMut held through a leaked SharedApplicationData clone
    leaked,      \* SharedApplicationData clones leaked by Window::create
    native,      \* native window handles that are alive
    windows,     \* ApplicationData.windows: BTreeMap<usize, Window>
    cfgIdx,      \* index of the pre-declared configuration the for loop is at
    pending,     \* Option<Window>: the Ok(w) of the Window::create just made
    attempts,    \* the calls of Window::create so far, in order
    showQueue,   \* windows.values_mut() still to be shown
    shown,       \* the ShowWindow calls made so far, in order
    msg,         \* the MSG buffer of run()
    hwnds,       \* Vec of the handles snapshot
    results,     \* Vec of the GetMessageW results of the sweep
    idx,         \* position of `for hwnd in hwnds`
    nPolled,     \* GetMessageW calls made so far
    nDispatched, \* DispatchMessageW calls made so far
    sweeps,      \* loop iterations started so far
    quitSeen,    \* wParams of the WM_QUIT messages GetMessageW has returned
    polled,      \* the GetMessageW calls so far, in order: loop iteration and handle
    currentCtx,  \* Option<HGLRC>: the OpenGL context current on the thread
    wglProcs,    \* what wglGetProcAddress answers per symbol while a context is current
    dllExports,  \* what GetProcAddress(opengl32.dll, ..) answers per symbol
    glLog,       \* the calls of lines 131..139 made so far, in order
    strong,      \* strong count of the Rc<RefCell<ApplicationData>>
    freed,       \* the library handles given to FreeLibrary so far, in order
    result,      \* Option<Result<isize, WindowsStartupError>>: what run() returned
    optArm,      \* the arm of impl_option! that generated the wrapper type
    optIn,       \* a native Option<T>
    optW,        \* a value of the wrapper type
    optOut,      \* the native Option<T> that into_option returned
    optPc        \* position of the code that uses the wrapper ("off": none does)

vars == <<pc, nWindows, hinstance, classReg, dwm, gl, built, borrowFlag, runExcl,
          cbShared, cbExcl, leaked, native, windows, cfgIdx, pending, attempts,
          showQueue, shown, msg, hwnds, results, idx, nPolled,
          nDispatched, sweeps, quitSeen, polled, currentCtx, wglProcs, dllExports,
          glLog, strong, freed, result, optArm, optIn, optW, optOut, optPc>>

startupVars == <<nWindows, hinstance, classReg, dwm, gl, built>>
borrowVars == <<borrowFlag, runExcl, cbShared, cbExcl>>
createVars == <<leaked, native, windows, cfgIdx, pending, attempts>>
showVars == <<showQueue, shown>>
loopVars == <<msg, hwnds, results, idx, nPolled, nDispatched, sweeps, quitSeen, polled>>
glVars == <<currentCtx, wglProcs, dllExports, glLog>>
rcVars == <<strong, freed>>
optVars == <<optArm, optIn, optW, optOut, optPc>>

runVars == <<pc, startupVars, borrowVars, createVars, showVars, loopVars, glVars,
             rcVars, result>>

\* ------------------------------------- the optional-value wrappers (option.rs)
\* the three arms of impl_option!: "move" is `copy = false, clone = false`,
\* "clone" is `copy = false`, "copy" is the arm with neither flag
OptArms == {"move", "clone", "copy"}

\* a value that is not equal to itself (f32::NAN of AzOptionF32, and of the
\* f32 fields of AzLogicalPosition and AzLogicalSize)
NaN == -1

\* the values of the wrapped type T: the types of the "move" arm derive Eq
TValues(arm) == (0..MaxVal) \cup (IF arm = "move" THEN {} ELSE {NaN})

\* PartialEq of T
TEq(x, y) == x = y /\ x # NaN

\* PartialEq of Option<T>
OptionEq(a, b) ==
    \/ a = None /\ b = None
    \/ IsSome(a) /\ IsSome(b) /\ TEq(Unwrap(a), Unwrap(b))

\* the two variants of the wrapper enum
WNone == <<"None">>
WSome(t) == <<"Some", t>>

\* impl Default: fn default() -> $struct_name { $struct_name::None }
Default == WNone

\* as_option that takes a zero payload for an absent one
as_option_ZeroIsAbsent(w) == IF w = WNone \/ w[2] = 0 THEN None ELSE Some(w[2])

\* fn as_option(&self) -> Option<&T>
as_option(w) == IF w = WNone THEN None ELSE Some(w[2])

\* fn as_mut_option(&mut self) -> Option<&mut T>
as_mut_option(w) == IF w = WNone THEN None ELSE Some(w[2])

\* fn is_some(&self) -> bool
is_some(w) == IF w = WNone THEN FALSE ELSE TRUE

\* fn is_none(&self) -> bool { !self.is_some() }
is_none(w) == ~is_some(w)

\* t.clone() of the "clone" arm, *t of the "copy" arm
Duplicate(t) == t

\* From<Option<T>> that takes the payload out before it tests for it
From_Option_TakenFirst(arm, o) ==
    IF arm = "move"
    THEN WNone
    ELSE IF o = None THEN WNone ELSE WSome(Duplicate(Unwrap(o)))

\* impl From<Option<T>> for the wrapper: the "move" arm tests o.is_none() and
\* takes the payload, the other two match on o and duplicate the payload
From_Option(arm, o) ==
    IF arm = "move"
    THEN IF ~IsSome(o) THEN WNone ELSE WSome(Unwrap(o))
    ELSE IF o = None THEN WNone ELSE WSome(Duplicate(Unwrap(o)))

\* the arms that define into_option and From<wrapper> for Option<T>
HasIntoOption(arm) == arm \in {"clone", "copy"}

\* fn into_option(&self) -> Option<T>, as both arms that have it define it
into_option(arm, w) == IF w = WNone THEN None ELSE Some(Duplicate(w[2]))

\* no code uses a wrapper
OptUnused ==
    /\ optArm = "copy"
    /\ optIn = None
    /\ optW = Default
    /\ optOut = None
    /\ optPc = "off"

\* let w: Wrapper = o.into()
OptFrom ==
    /\ optPc = "native"
    /\ optW' = From_Option(optArm, optIn)
    /\ optPc' = "wrapped"
    /\ UNCHANGED <<optArm, optIn, optOut, runVars>>

\* let w = Wrapper::default()
OptDefault ==
    /\ optPc = "native"
    /\ optW' = Default
    /\ optPc' = "made"
    /\ UNCHANGED <<optArm, optIn, optOut, runVars>>

\* if let Some(t) = w.as_mut_option() { *t = v }
OptWrite ==
    /\ optPc \in {"wrapped", "made", "written"}
    /\ IsSome(as_mut_option(optW))
    /\ \E v \in TValues(optArm) \ {optW[2]} : optW' = WSome(v)
    /\ optPc' = "written"
    /\ UNCHANGED <<optArm, optIn, optOut, runVars>>

\* let o = w.into_option(), for a wrapper type that has the method
OptIntoOption ==
    /\ optPc \in {"wrapped", "made", "written"}
    /\ HasIntoOption(optArm)
    /\ optOut' = into_option(optArm, optW)
    /\ optPc' = IF optPc = "wrapped" THEN "back" ELSE "read"
    /\ UNCHANGED <<optArm, optIn, optW, runVars>>

\* ------------------------------------------------------- helper operators
RECURSIVE SortedSeq(_)
\* iteration order of a BTreeMap<usize, _>: ascending keys
SortedSeq(S) ==
    IF S = {} THEN <<>>
    ELSE LET m == CHOOSE x \in S : \A y \in S : x <= y
         IN <<m>> \o SortedSeq(S \ {m})

\* mem::zeroed::<MSG>()
ZeroMsg == [hwnd |-> 0, message |-> "null", wParam |-> 0]

Ok(v) == [tag |-> "Ok", value |-> v]
Err(t, v) == [tag |-> t, value |-> v]

\* RefCell::try_borrow succeeds unless a writer is active
TryBorrowOk(flag) == flag >= 0
\* RefCell::try_borrow_mut succeeds only when nothing is borrowed
TryBorrowMutOk(flag) == flag = 0

\* get_id that does not tell windows apart
get_id_Constant(w) == 0

\* get_id that keeps the lowest bit of the handle
get_id_LowBit(w) == w.hwnd % 2

\* Window::get_id
get_id(w) == w.hwnd

\* a Window that Window::create gives a graphics context of its own
NewWindow_WithContext(h) == [hwnd |-> h, gl_context |-> Some(h), renderer |-> Some("renderer")]

\* a Window with a graphics context and its renderer already taken
NewWindow_ContextWithoutRenderer(h) == [hwnd |-> h, gl_context |-> Some(h), renderer |-> None]

\* the Ok(Window { .. }) that Window::create returns for a native handle
NewWindow(h) == [hwnd |-> h, gl_context |-> None, renderer |-> Some("renderer")]

\* the symbols of GenericGlContext that are modelled
Symbols == {"glAccum", "glActiveTexture"}

\* mem::zeroed::<GenericGlContext>(): every function pointer is null
NullTable == [s \in Symbols |-> 0]

\* BTreeMap::insert
MapInsert(m, k, v) == [x \in (DOMAIN m) \cup {k} |-> IF x = k THEN v ELSE m[x]]

\* run() has been called and has done nothing yet
InitRun ==
    /\ pc = "start"
    /\ nWindows \in 0..MaxWindows
    /\ hinstance = 0
    /\ classReg = "none"
    /\ dwm = None
    /\ gl = None
    /\ built = FALSE
    /\ borrowFlag = 0
    /\ runExcl = FALSE
    /\ cbShared = 0
    /\ cbExcl = FALSE
    /\ leaked = 0
    /\ native = {}
    /\ windows = <<>>
    /\ cfgIdx = 1
    /\ pending = None
    /\ attempts = <<>>
    /\ showQueue = <<>>
    /\ shown = <<>>
    /\ msg = ZeroMsg
    /\ hwnds = <<>>
    /\ results = <<>>
    /\ idx = 1
    /\ nPolled = 0
    /\ nDispatched = 0
    /\ sweeps = 0
    /\ quitSeen = {}
    /\ polled = <<>>
    /\ currentCtx = None
    /\ wglProcs = NullTable
    /\ dllExports = NullTable
    /\ glLog = <<>>
    /\ strong = 0
    /\ freed = <<>>
    /\ result = None

Init == InitRun /\ OptUnused


\* ------------------------------------------------------------ run: startup
\* Drop for GlFunctions that calls FreeLibrary whether a library was loaded or not
GlFunctions_drop_FreesAbsent(g) ==
    IF IsSome(g._opengl32_dll_handle) THEN <<Unwrap(g._opengl32_dll_handle)>> ELSE <<0>>

\* Drop for GlFunctions: the handles it gives to FreeLibrary
GlFunctions_drop(g) ==
    IF IsSome(g._opengl32_dll_handle) THEN <<Unwrap(g._opengl32_dll_handle)>> ELSE <<>>

\* Drop for GlFunctions, then Drop for DwmFunctions (the fields in declaration
\* order): FreeLibrary on the handle each one holds
DropApplicationData ==
    (IF IsSome(gl) THEN GlFunctions_drop(Unwrap(gl)) ELSE <<>>)
    \o (IF IsSome(dwm) THEN <<Unwrap(dwm)._dwmapi_dll_handle>> ELSE <<>>)

\* the strong count once app_data_inner and application_data are out of scope
AfterScopeExit == IF built THEN strong - 2 ELSE strong

\* the value run() returns, and run() is over
Return(r) ==
    /\ result' = Some(r)
    /\ pc' = "done"
    /\ strong' = AfterScopeExit
    /\ freed' = IF built /\ AfterScopeExit = 0 THEN freed \o DropApplicationData ELSE freed

\* AfterCreate that goes past the for loop over the pre-declared windows
AfterCreate_LoopSkipped(i) == "create_root"

\* where run() goes after the Window::create of configuration number i
AfterCreate(i) == IF i < nWindows THEN "create" ELSE "create_root"

\* GetModuleHandle with the null test made after the class registration
GetModuleHandle_LateTest ==
    /\ pc = "start"
    /\ \/ /\ \E e \in ErrCodes : Return(Err("NoAppInstance", e))
          /\ classReg' = "failed"
          /\ UNCHANGED hinstance
       \/ /\ hinstance' = 1
          /\ pc' = "register"
          /\ UNCHANGED <<result, classReg, rcVars>>
    /\ UNCHANGED <<nWindows, dwm, gl, built>>
    /\ UNCHANGED <<borrowVars, createVars, showVars, loopVars, glVars, optVars>>

\* let hinstance = GetModuleHandleW(null); if hinstance.is_null() { return Err(NoAppInstance(..)) }
GetModuleHandle ==
    /\ pc = "start"
    /\ \/ /\ \E e \in ErrCodes : Return(Err("NoAppInstance", e))
          /\ UNCHANGED hinstance
       \/ /\ hinstance' = 1
          /\ pc' = "register"
          /\ UNCHANGED <<result, rcVars>>
    /\ UNCHANGED <<nWindows, classReg, dwm, gl, built>>
    /\ UNCHANGED <<borrowVars, createVars, showVars, loopVars, glVars, optVars>>

\* RegisterClass with a failed registration returned as an error
RegisterClass_FailureFatal ==
    /\ pc = "register"
    /\ \E r \in {"ok", "failed"} :
         /\ classReg' = r
         /\ IF r = "ok"
            THEN /\ pc' = "dwm"
                 /\ UNCHANGED <<result, rcVars>>
            ELSE Return(Err("WindowCreationFailed", 0))
    /\ UNCHANGED <<nWindows, hinstance, dwm, gl, built>>
    /\ UNCHANGED <<borrowVars, createVars, showVars, loopVars, glVars, optVars>>

\* unsafe { RegisterClassW(&wc) }: the result is dropped
RegisterClass ==
    /\ pc = "register"
    /\ \E r \in {"ok", "failed"} : classReg' = r
    /\ pc' = "dwm"
    /\ UNCHANGED <<nWindows, hinstance, dwm, gl, built, result, rcVars>>
    /\ UNCHANGED <<borrowVars, createVars, showVars, loopVars, glVars, optVars>>

\* DwmInitialize with a missing library or symbol returned as an error
DwmInitialize_MissingFatal ==
    /\ pc = "dwm"
    /\ \/ /\ Return(Err("WindowCreationFailed", 0))
          /\ UNCHANGED dwm
       \/ /\ dwm' = Some([_dwmapi_dll_handle |-> 1,
                          DwmEnableBlurBehindWindow |-> TRUE,
                          DwmExtendFrameIntoClientArea |-> TRUE,
                          DwmDefWindowProc |-> TRUE])
          /\ pc' = "gl"
          /\ UNCHANGED <<result, rcVars>>
    /\ UNCHANGED <<nWindows, hinstance, classReg, gl, built>>
    /\ UNCHANGED <<borrowVars, createVars, showVars, loopVars, glVars, optVars>>

\* DwmFunctions::initialize: None when dwmapi.dll is not found, else one Option per symbol
DwmInitialize ==
    /\ pc = "dwm"
    /\ \/ dwm' = None
       \/ \E b, e, d \in BOOLEAN :
            dwm' = Some([_dwmapi_dll_handle |-> 1,
                         DwmEnableBlurBehindWindow |-> b,
                         DwmExtendFrameIntoClientArea |-> e,
                         DwmDefWindowProc |-> d])
    /\ pc' = "gl"
    /\ UNCHANGED <<nWindows, hinstance, classReg, gl, built, result, rcVars>>
    /\ UNCHANGED <<borrowVars, createVars, showVars, loopVars, glVars, optVars>>

\* GlFunctions::initialize: the library handle is optional, every function pointer is zeroed
GlInitialize ==
    /\ pc = "gl"
    /\ \E h \in {None, Some(2)} :
         gl' = Some([_opengl32_dll_handle |-> h, functions |-> NullTable])
    /\ pc' = "build"
    /\ UNCHANGED <<nWindows, hinstance, classReg, dwm, built, result, rcVars>>
    /\ UNCHANGED <<borrowVars, createVars, showVars, loopVars, glVars, optVars>>

\* Rc::new(RefCell::new(ApplicationData { .., windows: BTreeMap::new(), .. }))
BuildRuntime ==
    /\ pc = "build"
    /\ built' = TRUE
    /\ strong' = 2
    /\ pc' = AfterCreate(0)
    /\ UNCHANGED <<nWindows, hinstance, classReg, dwm, gl, result, freed>>
    /\ UNCHANGED <<borrowVars, createVars, showVars, loopVars, glVars, optVars>>

\* Window::create that takes the clone back when CreateWindowExW returns null
Window_create_ReclaimsOnFailure(cfg, okPc, failPc) ==
    /\ \/ /\ attempts' = Append(attempts, [cfg |-> cfg, hwnd |-> 0])
          /\ pending' = None
          /\ pc' = failPc
          /\ cfgIdx' = IF cfg = 0 THEN cfgIdx ELSE cfgIdx + 1
          /\ UNCHANGED <<native, leaked, strong>>
       \/ \E h \in Handles \ native :
          /\ attempts' = Append(attempts, [cfg |-> cfg, hwnd |-> h])
          /\ native' = native \cup {h}
          /\ pending' = Some(NewWindow(h))
          /\ pc' = okPc
          /\ leaked' = leaked + 1
          /\ strong' = strong + 1
          /\ UNCHANGED cfgIdx
    /\ UNCHANGED <<windows, result, freed>>
    /\ UNCHANGED <<startupVars, borrowVars, showVars, loopVars, glVars, optVars>>

\* Window::create for configuration cfg (0 is the root window): the clone of the
\* shared handle is leaked, then CreateWindowExW returns null or a fresh handle
Window_create(cfg, okPc, failPc) ==
    /\ leaked' = leaked + 1
    /\ \/ /\ attempts' = Append(attempts, [cfg |-> cfg, hwnd |-> 0])
          /\ pending' = None
          /\ pc' = failPc
          /\ cfgIdx' = IF cfg = 0 THEN cfgIdx ELSE cfgIdx + 1
          /\ UNCHANGED native
       \/ \E h \in Handles \ native :
          /\ attempts' = Append(attempts, [cfg |-> cfg, hwnd |-> h])
          /\ native' = native \cup {h}
          /\ pending' = Some(NewWindow(h))
          /\ pc' = okPc
          /\ UNCHANGED cfgIdx
    /\ strong' = strong + 1
    /\ UNCHANGED <<windows, result, freed>>
    /\ UNCHANGED <<startupVars, borrowVars, showVars, loopVars, glVars, optVars>>

\* app_data_inner.try_borrow_mut()?.windows.insert(w.get_id(), w)
InsertWindow(nextPc) ==
    /\ IF TryBorrowMutOk(borrowFlag)
       THEN /\ windows' = MapInsert(windows, get_id(Unwrap(pending)), Unwrap(pending))
            /\ pc' = nextPc
            /\ UNCHANGED <<result, rcVars>>
       ELSE /\ Return(Err("BorrowMut", 0))
            /\ UNCHANGED windows
    /\ pending' = None
    /\ UNCHANGED <<leaked, native, attempts>>
    /\ UNCHANGED <<startupVars, borrowVars, showVars, loopVars, glVars, optVars>>

\* for opts in windows { if let Ok(w) = Window::create(..) {
CreateWindow ==
    /\ pc = "create"
    /\ Window_create(cfgIdx, "insert", AfterCreate(cfgIdx))

\*     app_data_inner.try_borrow_mut()?.windows.insert(w.get_id(), w); } }
InsertCreated ==
    /\ pc = "insert"
    /\ InsertWindow(AfterCreate(cfgIdx))
    /\ cfgIdx' = cfgIdx + 1

\* CreateRoot with the error of Window::create returned (?) instead of dropped
CreateRoot_FailureFatal ==
    /\ pc = "create_root"
    /\ leaked' = leaked + 1
    /\ \/ /\ attempts' = Append(attempts, [cfg |-> 0, hwnd |-> 0])
          /\ pending' = None
          /\ result' = Some(Err("Create", 0))
          /\ pc' = "done"
          /\ UNCHANGED native
       \/ \E h \in Handles \ native :
          /\ attempts' = Append(attempts, [cfg |-> 0, hwnd |-> h])
          /\ native' = native \cup {h}
          /\ pending' = Some(NewWindow(h))
          /\ pc' = "insert_root"
          /\ UNCHANGED result
    /\ strong' = strong + 1
    /\ UNCHANGED <<windows, cfgIdx, freed>>
    /\ UNCHANGED <<startupVars, borrowVars, showVars, loopVars, glVars, optVars>>

\* if let Ok(w) = Window::create(hinstance, root_window, ..) {
CreateRoot ==
    /\ pc = "create_root"
    /\ Window_create(0, "insert_root", "elect")

\*     app_data_inner.try_borrow_mut()?.windows.insert(w.get_id(), w); }
InsertRoot ==
    /\ pc = "insert_root"
    /\ InsertWindow("elect")
    /\ UNCHANGED cfgIdx

\* the find that takes the first window, with a graphics context or without
FindGl_AnyWindow(m, ks) ==
    IF ks = <<>> THEN None
    ELSE Some(<<m[Head(ks)].hwnd, m[Head(ks)].gl_context>>)

\* the find that takes the last window with a graphics context, not the first
FindGl_Last(m, ks) ==
    LET c == {i \in DOMAIN ks : IsSome(m[ks[i]].gl_context)}
    IN IF c = {} THEN None
       ELSE LET j == CHOOSE i \in c : \A k \in c : k <= i
            IN Some(<<m[ks[j]].hwnd, Unwrap(m[ks[j]].gl_context)>>)

RECURSIVE FindGl(_, _)
\* windows.values().find(|w| w.gl_context.is_some()) over the keys ks, in order
FindGl(m, ks) ==
    IF ks = <<>> THEN None
    ELSE IF IsSome(m[Head(ks)].gl_context)
         THEN Some(<<m[Head(ks)].hwnd, Unwrap(m[Head(ks)].gl_context)>>)
         ELSE FindGl(m, Tail(ks))

\* let root_context = match app_data_inner.try_borrow()?.windows.values().find(..)
root_context == FindGl(windows, SortedSeq(DOMAIN windows))

\* ElectContext with the borrow error dropped (.ok()) instead of returned (?)
ElectContext_ErrorDropped ==
    /\ pc = "elect"
    /\ pc' = IF TryBorrowOk(borrowFlag) /\ root_context # None THEN "getdc" ELSE "show_begin"
    /\ UNCHANGED <<result, rcVars>>
    /\ UNCHANGED <<startupVars, borrowVars, createVars, showVars, loopVars, glVars, optVars>>

\* the election of the window whose context loads the OpenGL functions; with
\* root_context = None the block of lines 131..139 is skipped
ElectContext ==
    /\ pc = "elect"
    /\ IF TryBorrowOk(borrowFlag)
       THEN /\ pc' = IF root_context = None THEN "show_begin" ELSE "getdc"
            /\ UNCHANGED <<result, rcVars>>
       ELSE Return(Err("Borrow", 0))
    /\ UNCHANGED <<startupVars, borrowVars, createVars, showVars, loopVars, glVars, optVars>>

\* RefMut dropped: the RefCell is unused again
ReleaseRunExcl ==
    /\ borrowFlag' = 0
    /\ runExcl' = FALSE

\* ShowBegin that takes the exclusive borrow without the check
ShowBegin_Unchecked ==
    /\ pc = "show_begin"
    /\ showQueue' = SortedSeq(DOMAIN windows)
    /\ IF DOMAIN windows = {}
       THEN /\ pc' = "snapshot"
            /\ UNCHANGED <<borrowFlag, runExcl>>
       ELSE /\ pc' = "show"
            /\ borrowFlag' = -1
            /\ runExcl' = TRUE
    /\ UNCHANGED <<cbShared, cbExcl, shown, result, rcVars>>
    /\ UNCHANGED <<startupVars, createVars, loopVars, glVars, optVars>>

\* ShowBegin with a borrow that ends before the first show() instead of with
\* the for statement
ShowBegin_BorrowDropped ==
    /\ pc = "show_begin"
    /\ IF TryBorrowMutOk(borrowFlag)
       THEN /\ showQueue' = SortedSeq(DOMAIN windows)
            /\ pc' = IF DOMAIN windows = {} THEN "snapshot" ELSE "show"
            /\ UNCHANGED <<result, rcVars>>
       ELSE /\ Return(Err("BorrowMut", 0))
            /\ UNCHANGED showQueue
    /\ UNCHANGED <<borrowFlag, runExcl, cbShared, cbExcl, shown>>
    /\ UNCHANGED <<startupVars, createVars, loopVars, glVars, optVars>>

\* for window in app_data_inner.try_borrow_mut()?.windows.values_mut() { .. }:
\* the RefMut lives until the for statement ends
ShowBegin ==
    /\ pc = "show_begin"
    /\ IF TryBorrowMutOk(borrowFlag)
       THEN /\ showQueue' = SortedSeq(DOMAIN windows)
            /\ IF DOMAIN windows = {}
               THEN /\ pc' = "snapshot"
                    /\ UNCHANGED <<borrowFlag, runExcl>>
               ELSE /\ pc' = "show"
                    /\ borrowFlag' = -1
                    /\ runExcl' = TRUE
            /\ UNCHANGED <<result, rcVars>>
       ELSE /\ Return(Err("BorrowMut", 0))
            /\ UNCHANGED <<showQueue, borrowFlag, runExcl>>
    /\ UNCHANGED <<cbShared, cbExcl, shown>>
    /\ UNCHANGED <<startupVars, createVars, loopVars, glVars, optVars>>

\* Window::show: ShowWindow(self.hwnd, SW_SHOWNORMAL | SW_MAXIMIZE)
Window_show(w) == shown' = Append(shown, w.hwnd)

\* ShowNext that leaves the for loop after the first window
ShowNext_FirstOnly ==
    /\ pc = "show"
    /\ Window_show(windows[Head(showQueue)])
    /\ showQueue' = <<>>
    /\ ReleaseRunExcl
    /\ pc' = "snapshot"
    /\ UNCHANGED <<cbShared, cbExcl, result, rcVars>>
    /\ UNCHANGED <<startupVars, createVars, loopVars, glVars, optVars>>

\* window.show() for the next window of the iteration
ShowNext ==
    /\ pc = "show"
    /\ Window_show(windows[Head(showQueue)])
    /\ showQueue' = Tail(showQueue)
    /\ IF Tail(showQueue) = <<>>
       THEN /\ ReleaseRunExcl
            /\ pc' = "snapshot"
       ELSE /\ UNCHANGED <<borrowFlag, runExcl>>
            /\ UNCHANGED pc
    /\ UNCHANGED <<cbShared, cbExcl, result, rcVars>>
    /\ UNCHANGED <<startupVars, createVars, loopVars, glVars, optVars>>


\* ------------------------------------------------------ run: dispatch loop
\* Ok(msg.wParam as isize), reached by every `break 'main`
ExitLoop == Return(Ok(msg.wParam))

\* the outcomes of GetMessageW(&mut msg, hwnd, 0, 0) as <<status, message written>>:
\* -1 leaves the buffer alone (always so for a handle that is no window any more),
\* 0 stores WM_QUIT, a positive status stores a message of the window
GetMessageW(hwnd) ==
    {<<-1, msg>>} \cup
    (IF hwnd \in native
     THEN {<<0, [hwnd |-> 0, message |-> "WM_QUIT", wParam |-> w]>> : w \in WParams}
          \cup {<<1, [hwnd |-> hwnd, message |-> "WM_COMMAND", wParam |-> w]>> : w \in WParams}
          \cup {<<1, [hwnd |-> hwnd, message |-> "WM_CLOSE", wParam |-> 0]>>}
     ELSE {})

\* WindowProc is DefWindowProcW: WM_CLOSE destroys the native window, the
\* window map is left alone
WindowProc(m) ==
    IF m.message = "WM_CLOSE" /\ m.hwnd \in native
    THEN native \ {m.hwnd}
    ELSE native

\* LoopSnapshot with the borrow error returned (?) instead of breaking the loop
LoopSnapshot_ErrorReturned ==
    /\ pc = "snapshot"
    /\ sweeps < MaxSweeps
    /\ sweeps' = sweeps + 1
    /\ IF TryBorrowOk(borrowFlag)
       THEN /\ hwnds' = hwnds \o SortedSeq(DOMAIN windows)
            /\ idx' = 1
            /\ pc' = IF hwnds' = <<>> THEN "check" ELSE "poll"
            /\ UNCHANGED <<result, rcVars>>
       ELSE /\ Return(Err("Borrow", 0))
            /\ UNCHANGED <<hwnds, idx>>
    /\ UNCHANGED <<msg, results, nPolled, nDispatched, quitSeen, polled>>
    /\ UNCHANGED <<startupVars, borrowVars, createVars, showVars, glVars, optVars>>

\* LoopSnapshot that loads the OpenGL functions again in every iteration
LoopSnapshot_Reloads ==
    /\ pc = "snapshot"
    /\ sweeps < MaxSweeps
    /\ sweeps' = sweeps + 1
    /\ IF TryBorrowOk(borrowFlag)
       THEN /\ hwnds' = hwnds \o SortedSeq(DOMAIN windows)
            /\ idx' = 1
            /\ pc' = IF hwnds' = <<>> THEN "check" ELSE "poll"
            /\ gl' = Some([Unwrap(gl) EXCEPT !.functions =
                              [s \in Symbols |-> IF Unwrap(gl)._opengl32_dll_handle # None
                                                 THEN dllExports[s] ELSE 0]])
            /\ glLog' = Append(glLog, [call |-> "load", ok |-> TRUE, arg |-> 0])
            /\ UNCHANGED <<result, rcVars>>
       ELSE /\ ExitLoop
            /\ UNCHANGED <<hwnds, idx, gl, glLog>>
    /\ UNCHANGED <<msg, results, nPolled, nDispatched, quitSeen, polled>>
    /\ UNCHANGED <<nWindows, hinstance, classReg, dwm, built>>
    /\ UNCHANGED <<currentCtx, wglProcs, dllExports, optVars>>
    /\ UNCHANGED <<borrowVars, createVars, showVars>>

\* LoopSnapshot that keeps its shared borrow for the rest of the iteration
LoopSnapshot_BorrowKept ==
    /\ pc = "snapshot"
    /\ sweeps < MaxSweeps
    /\ sweeps' = sweeps + 1
    /\ IF TryBorrowOk(borrowFlag)
       THEN /\ hwnds' = hwnds \o SortedSeq(DOMAIN windows)
            /\ idx' = 1
            /\ pc' = IF hwnds' = <<>> THEN "check" ELSE "poll"
            /\ borrowFlag' = borrowFlag + 1
            /\ UNCHANGED <<result, rcVars>>
       ELSE /\ ExitLoop
            /\ UNCHANGED <<hwnds, idx, borrowFlag>>
    /\ UNCHANGED <<msg, results, nPolled, nDispatched, quitSeen, polled>>
    /\ UNCHANGED <<runExcl, cbShared, cbExcl>>
    /\ UNCHANGED <<startupVars, createVars, showVars, glVars, optVars>>

\* the top of 'main: the shared borrow, the handles pushed in map order, the borrow dropped
LoopSnapshot ==
    /\ pc = "snapshot"
    /\ sweeps < MaxSweeps
    /\ sweeps' = sweeps + 1
    /\ IF TryBorrowOk(borrowFlag)
       THEN /\ hwnds' = hwnds \o SortedSeq(DOMAIN windows)
            /\ idx' = 1
            /\ pc' = IF hwnds' = <<>> THEN "check" ELSE "poll"
            /\ UNCHANGED <<result, rcVars>>
       ELSE /\ ExitLoop
            /\ UNCHANGED <<hwnds, idx>>
    /\ UNCHANGED <<msg, results, nPolled, nDispatched, quitSeen, polled>>
    /\ UNCHANGED <<startupVars, borrowVars, createVars, showVars, glVars, optVars>>

\* PollAndDispatch that polls the first handle of the snapshot in every turn
PollAndDispatch_FirstHandle ==
    /\ pc = "poll"
    /\ \E o \in GetMessageW(hwnds[1]) :
         /\ results' = Append(results, o[1])
         /\ msg' = o[2]
         /\ quitSeen' = IF o[1] = 0 THEN quitSeen \cup {o[2].wParam} ELSE quitSeen
         /\ native' = WindowProc(o[2])
    /\ polled' = Append(polled, [sweep |-> sweeps, hwnd |-> hwnds[1]])
    /\ nPolled' = nPolled + 1
    /\ nDispatched' = nDispatched + 1
    /\ idx' = idx + 1
    /\ pc' = IF idx = Len(hwnds) THEN "check" ELSE "poll"
    /\ UNCHANGED <<hwnds, sweeps, result, rcVars>>
    /\ UNCHANGED <<leaked, windows, cfgIdx, pending, attempts>>
    /\ UNCHANGED <<startupVars, borrowVars, showVars, glVars, optVars>>

\* one turn of `for hwnd in hwnds`: results.push(GetMessageW(..)); TranslateMessage; DispatchMessageW.
\* The for loop reads hwnds and leaves its contents to the test of line 180.
PollAndDispatch ==
    /\ pc = "poll"
    /\ \E o \in GetMessageW(hwnds[idx]) :
         /\ results' = Append(results, o[1])
         /\ msg' = o[2]
         /\ quitSeen' = IF o[1] = 0 THEN quitSeen \cup {o[2].wParam} ELSE quitSeen
         /\ native' = WindowProc(o[2])
    /\ polled' = Append(polled, [sweep |-> sweeps, hwnd |-> hwnds[idx]])
    /\ nPolled' = nPolled + 1
    /\ nDispatched' = nDispatched + 1
    /\ idx' = idx + 1
    /\ pc' = IF idx = Len(hwnds) THEN "check" ELSE "poll"
    /\ UNCHANGED <<hwnds, sweeps, result, rcVars>>
    /\ UNCHANGED <<leaked, windows, cfgIdx, pending, attempts>>
    /\ UNCHANGED <<startupVars, borrowVars, showVars, glVars, optVars>>

\* LoopBreaks with 0 (the quit status) taken for a success
LoopBreaks_ZeroPositive(rs, hs) == (\E i \in 1..Len(rs) : rs[i] < 0) \/ rs = <<>> \/ hs = <<>>

\* LoopBreaks without the test of line 180
LoopBreaks_NoEmptyTest(rs, hs) == \E i \in 1..Len(rs) : ~(rs[i] > 0)

\* LoopBreaks that tests the last status of the sweep alone
LoopBreaks_LastStatusOnly(rs, hs) == (rs # <<>> /\ ~(rs[Len(rs)] > 0)) \/ rs = <<>> \/ hs = <<>>

\* the loop leaves when a status is not positive, or when nothing was polled
LoopBreaks(rs, hs) == (\E i \in 1..Len(rs) : ~(rs[i] > 0)) \/ rs = <<>> \/ hs = <<>>

\* LoopCheck without hwnds.clear(): the handles stay in the vector
LoopCheck_HandlesKept ==
    /\ pc = "check"
    /\ IF LoopBreaks(results, hwnds)
       THEN /\ ExitLoop
            /\ UNCHANGED <<hwnds, results, idx>>
       ELSE /\ results' = <<>>
            /\ idx' = 1
            /\ pc' = "snapshot"
            /\ UNCHANGED <<hwnds, result, rcVars>>
    /\ UNCHANGED <<msg, nPolled, nDispatched, sweeps, quitSeen, polled>>
    /\ UNCHANGED <<startupVars, borrowVars, createVars, showVars, glVars, optVars>>

\* the end of the iteration: the two break tests, else hwnds.clear(); results.clear()
LoopCheck ==
    /\ pc = "check"
    /\ IF LoopBreaks(results, hwnds)
       THEN /\ ExitLoop
            /\ UNCHANGED <<hwnds, results, idx>>
       ELSE /\ hwnds' = <<>>
            /\ results' = <<>>
            /\ idx' = 1
            /\ pc' = "snapshot"
            /\ UNCHANGED <<result, rcVars>>
    /\ UNCHANGED <<msg, nPolled, nDispatched, sweeps, quitSeen, polled>>
    /\ UNCHANGED <<startupVars, borrowVars, createVars, showVars, glVars, optVars>>

\* ------------------------------------- the callback path (leaked handles)
\* application code entered through a window procedure reaches the runtime
\* through the SharedApplicationData that Window::create leaked for it
CallbackCanRun == leaked > 0 /\ pc # "done"

CallbackBorrow ==
    /\ CallbackCanRun
    /\ cbShared < MaxCbShared
    /\ TryBorrowOk(borrowFlag)
    /\ borrowFlag' = borrowFlag + 1
    /\ cbShared' = cbShared + 1
    /\ UNCHANGED <<pc, runExcl, cbExcl, result, rcVars>>
    /\ UNCHANGED <<startupVars, createVars, showVars, loopVars, glVars, optVars>>

CallbackBorrowMut ==
    /\ CallbackCanRun
    /\ TryBorrowMutOk(borrowFlag)
    /\ borrowFlag' = -1
    /\ cbExcl' = TRUE
    /\ UNCHANGED <<pc, runExcl, cbShared, result, rcVars>>
    /\ UNCHANGED <<startupVars, createVars, showVars, loopVars, glVars, optVars>>

CallbackRelease ==
    /\ CallbackCanRun
    /\ \/ /\ cbExcl
          /\ cbExcl' = FALSE
          /\ borrowFlag' = 0
          /\ UNCHANGED cbShared
       \/ /\ cbShared > 0
          /\ cbShared' = cbShared - 1
          /\ borrowFlag' = borrowFlag - 1
          /\ UNCHANGED cbExcl
    /\ UNCHANGED <<pc, runExcl, result, rcVars>>
    /\ UNCHANGED <<startupVars, createVars, showVars, loopVars, glVars, optVars>>

\* ------------------------------------- run: loading the OpenGL functions
\* the addresses a lookup can answer: 0 is null, wglGetProcAddress answers a
\* context-local address, GetProcAddress an address inside opengl32.dll
WglAddrs == {0, 1}
DllAddrs == {0, 2}

\* wglGetProcAddress(name): null when no context is current on the thread
wglGetProcAddress(s) == IF currentCtx = None THEN 0 ELSE wglProcs[s]

\* GetProcAddress(opengl32_dll, name)
GetProcAddress(dll, s) == dllExports[s]

\* get_func that asks the export table of the library first
get_func_StaticFirst(s, opengl32_dll) ==
    IF IsSome(opengl32_dll) /\ GetProcAddress(Unwrap(opengl32_dll), s) # 0
    THEN GetProcAddress(Unwrap(opengl32_dll), s)
    ELSE wglGetProcAddress(s)

\* get_func that asks GetProcAddress with a null module when no library was loaded
get_func_AbsentLibraryAsked(s, opengl32_dll) ==
    LET addr1 == wglGetProcAddress(s)
    IN IF addr1 # 0
       THEN addr1
       ELSE GetProcAddress(IF IsSome(opengl32_dll) THEN Unwrap(opengl32_dll) ELSE 0, s)

\* GlFunctions::load::get_func
get_func(s, opengl32_dll) ==
    LET addr1 == wglGetProcAddress(s)
    IN IF addr1 # 0
       THEN addr1
       ELSE IF IsSome(opengl32_dll)
            THEN GetProcAddress(Unwrap(opengl32_dll), s)
            ELSE addr1

\* GlFunctions::load: self.functions = Rc::new(GenericGlContext { name: get_func(name, ..), .. })
GlFunctions_load(g) ==
    [g EXCEPT !.functions = [s \in Symbols |-> get_func(s, g._opengl32_dll_handle)]]

\* one call of lines 131..139, as it is logged
GlCall(name, ok, arg) == [call |-> name, ok |-> ok, arg |-> arg]

\* GetDC without the null test: a null device context is used like any other
GetDC_NullUsed ==
    /\ pc = "getdc"
    /\ \E ok \in BOOLEAN :
         glLog' = Append(glLog, GlCall("GetDC", ok, Unwrap(root_context)[1]))
    /\ pc' = "makecurrent"
    /\ UNCHANGED <<currentCtx, wglProcs, dllExports, optVars, result, rcVars>>
    /\ UNCHANGED <<startupVars, borrowVars, createVars, showVars, loopVars>>

\* let hdc = GetDC(hwnd); if !hdc.is_null() { .. }
GetDC ==
    /\ pc = "getdc"
    /\ \E ok \in BOOLEAN :
         /\ glLog' = Append(glLog, GlCall("GetDC", ok, Unwrap(root_context)[1]))
         /\ pc' = IF ok THEN "makecurrent" ELSE "show_begin"
    /\ UNCHANGED <<currentCtx, wglProcs, dllExports, optVars, result, rcVars>>
    /\ UNCHANGED <<startupVars, borrowVars, createVars, showVars, loopVars>>

\* wglMakeCurrent(hdc, hrc): the BOOL it returns is dropped
MakeCurrent ==
    /\ pc = "makecurrent"
    /\ \E ok \in BOOLEAN :
         /\ glLog' = Append(glLog, GlCall("wglMakeCurrent", ok, Unwrap(root_context)[2]))
         /\ currentCtx' = IF ok THEN Some(Unwrap(root_context)[2]) ELSE currentCtx
    /\ pc' = "load"
    /\ UNCHANGED <<wglProcs, dllExports, optVars, result, rcVars>>
    /\ UNCHANGED <<startupVars, borrowVars, createVars, showVars, loopVars>>

\* LoadFunctions with a symbol that no lookup resolves returned as an error
LoadFunctions_MissingFatal ==
    /\ pc = "load"
    /\ IF TryBorrowOk(borrowFlag)
       THEN /\ gl' = Some(GlFunctions_load(Unwrap(gl)))
            /\ glLog' = Append(glLog, GlCall("load", TRUE, 0))
       ELSE UNCHANGED <<gl, glLog>>
    /\ IF \E s \in Symbols : Unwrap(gl').functions[s] = 0
       THEN Return(Err("Gl", 0))
       ELSE /\ pc' = "unbind"
            /\ UNCHANGED <<result, rcVars>>
    /\ UNCHANGED <<nWindows, hinstance, classReg, dwm, built>>
    /\ UNCHANGED <<currentCtx, wglProcs, dllExports, optVars>>
    /\ UNCHANGED <<borrowVars, createVars, showVars, loopVars>>

\* LoadFunctions with a load that leaves no context current when it returns
LoadFunctions_Unbinds ==
    /\ pc = "load"
    /\ IF TryBorrowOk(borrowFlag)
       THEN /\ gl' = Some(GlFunctions_load(Unwrap(gl)))
            /\ glLog' = Append(glLog, GlCall("load", TRUE, 0))
            /\ currentCtx' = None
       ELSE UNCHANGED <<gl, glLog, currentCtx>>
    /\ pc' = "unbind"
    /\ UNCHANGED <<nWindows, hinstance, classReg, dwm, built>>
    /\ UNCHANGED <<wglProcs, dllExports, optVars, result, rcVars>>
    /\ UNCHANGED <<borrowVars, createVars, showVars, loopVars>>

\* if let Ok(r) = app_data_inner.try_borrow().map(|a| a.gl) { r.load(); }
LoadFunctions ==
    /\ pc = "load"
    /\ IF TryBorrowOk(borrowFlag)
       THEN /\ gl' = Some(GlFunctions_load(Unwrap(gl)))
            /\ glLog' = Append(glLog, GlCall("load", TRUE, 0))
       ELSE UNCHANGED <<gl, glLog>>
    /\ pc' = "unbind"
    /\ UNCHANGED <<nWindows, hinstance, classReg, dwm, built>>
    /\ UNCHANGED <<currentCtx, wglProcs, dllExports, optVars, result, rcVars>>
    /\ UNCHANGED <<borrowVars, createVars, showVars, loopVars>>

\* wglMakeCurrent(null, null)
Unbind ==
    /\ pc = "unbind"
    /\ glLog' = Append(glLog, GlCall("wglMakeCurrent", TRUE, 0))
    /\ currentCtx' = None
    /\ pc' = "releasedc"
    /\ UNCHANGED <<wglProcs, dllExports, optVars, result, rcVars>>
    /\ UNCHANGED <<startupVars, borrowVars, createVars, showVars, loopVars>>

\* ReleaseDC(hwnd, hdc)
ReleaseDC ==
    /\ pc = "releasedc"
    /\ glLog' = Append(glLog, GlCall("ReleaseDC", TRUE, Unwrap(root_context)[1]))
    /\ pc' = "show_begin"
    /\ UNCHANGED <<currentCtx, wglProcs, dllExports, optVars, result, rcVars>>
    /\ UNCHANGED <<startupVars, borrowVars, createVars, showVars, loopVars>>

\* ------------------------------------------------------------ specification
Next ==
    \/ GetModuleHandle
    \/ RegisterClass
    \/ DwmInitialize
    \/ GlInitialize
    \/ BuildRuntime
    \/ CreateWindow
    \/ InsertCreated
    \/ CreateRoot
    \/ InsertRoot
    \/ ElectContext
    \/ ShowBegin
    \/ ShowNext
    \/ LoopSnapshot
    \/ PollAndDispatch
    \/ LoopCheck
    \/ CallbackBorrow
    \/ CallbackBorrowMut
    \/ CallbackRelease

Spec == Init /\ [][Next]_vars

\* --- run from the election on, for window maps in which windows have a
\* graphics context (Window::create leaves gl_context to be "initialized later")
\* the attempts that made the windows with the handles hs: the root window last
AttemptsFor(hs) ==
    IF hs = <<>> THEN <<[cfg |-> 0, hwnd |-> 0]>>
    ELSE [i \in 1..Len(hs) |-> [cfg |-> IF i = Len(hs) THEN 0 ELSE i, hwnd |-> hs[i]]]

\* the state of run at line 121 after the attempts atts gave the window map m
AtElection(m, atts, dll) ==
    /\ pc = "elect"
    /\ nWindows = Len(atts) - 1
    /\ hinstance = 1
    /\ classReg = "ok"
    /\ dwm = None
    /\ gl = Some([_opengl32_dll_handle |-> dll, functions |-> NullTable])
    /\ built = TRUE
    /\ borrowFlag = 0
    /\ runExcl = FALSE
    /\ cbShared = 0
    /\ cbExcl = FALSE
    /\ leaked = Len(atts)
    /\ native = DOMAIN m
    /\ windows = m
    /\ cfgIdx = Len(atts)
    /\ pending = None
    /\ attempts = atts
    /\ showQueue = <<>>
    /\ shown = <<>>
    /\ msg = ZeroMsg
    /\ hwnds = <<>>
    /\ results = <<>>
    /\ idx = 1
    /\ nPolled = 0
    /\ nDispatched = 0
    /\ sweeps = 0
    /\ quitSeen = {}
    /\ polled = <<>>
    /\ currentCtx = None
    /\ glLog = <<>>
    /\ strong = 2 + Len(atts)
    /\ freed = <<>>
    /\ result = None
    /\ OptUnused

\* the window with handle h, with a graphics context or without
WindowWith(h, withCtx) ==
    [NewWindow(h) EXCEPT !.gl_context = IF withCtx THEN Some(h + MaxHandle) ELSE None]

InitGl ==
    \E W \in SUBSET Handles : \E C \in SUBSET W : \E dll \in {None, Some(2)} :
        /\ AtElection([h \in W |-> WindowWith(h, h \in C)], AttemptsFor(SortedSeq(W)), dll)
        /\ wglProcs = [s \in Symbols |-> IF s = "glAccum" THEN 1 ELSE 0]
        /\ dllExports = [s \in Symbols |-> 2]

NextGl ==
    \/ ElectContext
    \/ GetDC
    \/ MakeCurrent
    \/ LoadFunctions
    \/ Unbind
    \/ ReleaseDC
    \/ ShowBegin
    \/ ShowNext
    \/ LoopSnapshot
    \/ PollAndDispatch
    \/ LoopCheck
    \/ CallbackBorrow
    \/ CallbackBorrowMut
    \/ CallbackRelease

SpecGl == InitGl /\ [][NextGl]_vars

\* --- run from the election on, with the steps of its loop always taken
\* a step of run() in the dispatch loop: the thread goes on, and every
\* GetMessageW returns
LoopStep == LoopSnapshot \/ PollAndDispatch \/ LoopCheck

SpecLive == InitGl /\ [][NextGl]_vars /\ WF_vars(LoopStep)

\* --- GlFunctions::load for every answer of the two lookups
InitLoad ==
    \E dll \in {None, Some(2)} :
        /\ AtElection([h \in {1} |-> WindowWith(h, TRUE)], AttemptsFor(<<1>>), dll)
        /\ wglProcs \in [Symbols -> WglAddrs]
        /\ dllExports \in [Symbols -> DllAddrs]

NextLoad ==
    \/ ElectContext
    \/ GetDC
    \/ MakeCurrent
    \/ LoadFunctions
    \/ Unbind
    \/ ReleaseDC
    \/ CallbackBorrow
    \/ CallbackBorrowMut
    \/ CallbackRelease

SpecLoad == InitLoad /\ [][NextLoad]_vars

\* --- GlFunctions from initialize to load: run where GlFunctions::initialize
\* is called, and run at the election with the value initialize returned
\* the state of run at line 93, before GlFunctions::initialize
AtGlInitialize ==
    /\ pc = "gl"
    /\ nWindows \in 0..MaxWindows
    /\ hinstance = 1
    /\ classReg \in {"ok", "failed"}
    /\ dwm = None
    /\ gl = None
    /\ built = FALSE
    /\ borrowFlag = 0
    /\ runExcl = FALSE
    /\ cbShared = 0
    /\ cbExcl = FALSE
    /\ leaked = 0
    /\ native = {}
    /\ windows = <<>>
    /\ cfgIdx = 1
    /\ pending = None
    /\ attempts = <<>>
    /\ showQueue = <<>>
    /\ shown = <<>>
    /\ msg = ZeroMsg
    /\ hwnds = <<>>
    /\ results = <<>>
    /\ idx = 1
    /\ nPolled = 0
    /\ nDispatched = 0
    /\ sweeps = 0
    /\ quitSeen = {}
    /\ polled = <<>>
    /\ currentCtx = None
    /\ wglProcs \in [Symbols -> WglAddrs]
    /\ dllExports \in [Symbols -> DllAddrs]
    /\ glLog = <<>>
    /\ strong = 0
    /\ freed = <<>>
    /\ result = None
    /\ OptUnused

InitLib == AtGlInitialize \/ InitLoad

NextLib ==
    \/ GlInitialize
    \/ BuildRuntime
    \/ ElectContext
    \/ GetDC
    \/ MakeCurrent
    \/ LoadFunctions
    \/ Unbind
    \/ ReleaseDC
    \/ CallbackBorrow
    \/ CallbackBorrowMut
    \/ CallbackRelease

SpecLib == InitLib /\ [][NextLib]_vars


\* -------------------------------------------------------------- properties
ResultTag == IF result = None THEN "running" ELSE Unwrap(result).tag
ResultValue == IF result = None THEN 0 ELSE Unwrap(result).value

\* the dispatch loop has been entered
InLoop == pc \in {"snapshot", "poll", "check"} \/ (pc = "done" /\ ResultTag = "Ok")

\* the native handles of the windows whose creation succeeded
Created == {attempts[i].hwnd : i \in DOMAIN attempts} \ {0}

\* the number of attempts to create the root window
RootAttempts == Cardinality({i \in DOMAIN attempts : attempts[i].cfg = 0})

\* C1: at the end of a sweep every handle of the snapshot has one status; the
\* loop is left there if and only if some status of the sweep is not positive
\* or the snapshot was empty, and otherwise the next iteration is started
C1_LoopTerminatesIff ==
    [][(pc = "check" /\ pc' # pc) =>
         /\ Len(results) = Len(hwnds)
         /\ (pc' = "done") <=> ((\E i \in DOMAIN results : results[i] <= 0) \/ hwnds = <<>>)
         /\ (pc' # "done") => (pc' = "snapshot" /\ result' = None)]_vars

\* C1 witness: two windows were polled with positive statuses and the loop went on
C1_Witness == pc = "snapshot" /\ sweeps = 1 /\ nPolled = 2 /\ result = None

\* C2: with an empty window map at loop entry the loop ends in its first
\* iteration, nothing is polled or dispatched, and run returns Ok
C2_EmptyMapTerminates ==
    (InLoop /\ DOMAIN windows = {}) =>
        /\ nPolled = 0
        /\ nDispatched = 0
        /\ pc # "poll"
        /\ sweeps <= 1
        /\ (pc = "snapshot" => sweeps = 0)
        /\ (pc = "done" => result = Some(Ok(0)))

\* C2 witness: every creation attempt failed and run has returned from the loop
C2_Witness ==
    /\ pc = "done"
    /\ sweeps = 1
    /\ DOMAIN windows = {}
    /\ Len(attempts) = 2
    /\ ResultTag = "Ok"

\* C3: a poll collected as gone or errored is not followed by a dispatch of a
\* message for that entry, the dispatches made before are kept, and no
\* further sweep starts after a sweep with such a poll
C3_NoDispatchAfterGone ==
    [][/\ (pc = "poll" /\ nPolled' = nPolled + 1 /\ results'[Len(results')] <= 0)
            => nDispatched' = nDispatched
       /\ nDispatched' >= nDispatched
       /\ (pc = "check" /\ pc' # pc /\ \E i \in DOMAIN results : results[i] <= 0)
            => pc' = "done"]_vars

\* C4: when a poll of the last sweep returned 0, run returns the wParam of a
\* WM_QUIT message that was retrieved
C4_ExitCodeIsQuitWParam ==
    (pc = "done" /\ ResultTag = "Ok" /\ \E i \in DOMAIN results : results[i] = 0)
        => ResultValue \in quitSeen

C6_NoAppInstanceImmediate ==
    /\ (pc # "start" /\ hinstance = 0) =>
        /\ pc = "done"
        /\ ResultTag = "NoAppInstance"
        /\ ResultValue \in ErrCodes
        /\ classReg = "none"
        /\ dwm = None
        /\ gl = None
        /\ ~built
        /\ attempts = <<>>
        /\ leaked = 0
        /\ sweeps = 0
        /\ nPolled = 0
    /\ ResultTag = "NoAppInstance" => hinstance = 0

\* C6 witness: GetModuleHandleW returned null and run is over
C6_Witness == pc = "done" /\ hinstance = 0 /\ ResultTag = "NoAppInstance"

Writers == (IF runExcl THEN 1 ELSE 0) + (IF cbExcl THEN 1 ELSE 0)
Readers == cbShared

InitOpt ==
    /\ InitRun
    /\ optArm \in OptArms
    /\ optIn \in {None} \cup {Some(t) : t \in TValues(optArm)}
    /\ optW = Default
    /\ optOut = None
    /\ optPc = "native"

NextOpt ==
    \/ OptFrom
    \/ OptDefault
    \/ OptWrite
    \/ OptIntoOption

SpecOpt == InitOpt /\ [][NextOpt]_vars

\* ------------------------------------- the OpenGL function table
\* the steps of lines 131..139
GlPcs == {"getdc", "makecurrent", "load", "unbind", "releasedc"}

\* the function table of the runtime
Functions == Unwrap(gl).functions

\* the number of times GlFunctions::load ran
LoadCalls == Cardinality({i \in DOMAIN glLog : glLog[i].call = "load"})

\* load has just returned: the context it ran with is still the current one
JustLoaded == pc = "unbind" /\ glLog # <<>> /\ glLog[Len(glLog)].call = "load"

\* what the context resolver answers for symbol s in the current state
ResolverAnswer(s) == IF currentCtx = None THEN 0 ELSE wglProcs[s]

\* the windows of the map that have a graphics context
WithContext == {h \in DOMAIN windows : windows[h].gl_context # None}

\* the smallest window id of a non-empty set of ids
MinId(S) == CHOOSE h \in S : \A k \in S : h <= k

\* C11: when load has run, the entry of every symbol is the address of the
\* context resolver where that is not null (whatever the export table holds),
\* else the address of the export table where the library was loaded, else null
C11_ResolverThenExportThenNull ==
    JustLoaded =>
        \A s \in Symbols :
            Functions[s] =
                IF ResolverAnswer(s) # 0 THEN ResolverAnswer(s)
                ELSE IF Unwrap(gl)._opengl32_dll_handle # None THEN dllExports[s]
                ELSE 0

\* C11 witness: load ran with a symbol that both lookups resolve, and the
\* entry holds the address of the context resolver
C11_Witness ==
    /\ JustLoaded
    /\ currentCtx # None
    /\ Unwrap(gl)._opengl32_dll_handle # None
    /\ wglProcs["glAccum"] = 1
    /\ dllExports["glAccum"] = 2
    /\ Functions["glAccum"] = 1

\* C12: the table has one entry for every symbol, null or an address, in every
\* state; after the load step run goes on with no result yet, and no result of
\* run is an error of the symbol resolution (the one error there is comes from
\* the borrow of the election)
C12_LoadCannotFail ==
    /\ DOMAIN Functions = Symbols
    /\ \A s \in Symbols : Functions[s] \in WglAddrs \cup DllAddrs
    /\ ResultTag \in {"running", "Borrow"}
    /\ (glLog # <<>> /\ pc # "done") => result = None
    /\ JustLoaded => result = None

\* C12 witness: load ran with the library found and a context current, one
\* symbol was resolved by neither lookup and another by the export table
\* alone, and run went on to show the windows
C12_Witness ==
    /\ pc = "show_begin"
    /\ LoadCalls = 1
    /\ result = None
    /\ Unwrap(gl)._opengl32_dll_handle # None
    /\ wglProcs["glAccum"] = 0 /\ dllExports["glAccum"] = 0
    /\ Functions["glAccum"] = 0
    /\ wglProcs["glActiveTexture"] = 0 /\ dllExports["glActiveTexture"] = 2
    /\ Functions["glActiveTexture"] = 2

\* C13: while no window of the map has a graphics context, no step of lines
\* 131..139 is taken, no native call of them is made, every entry of the table
\* is null, run has no error other than a refused borrow, and run returns Ok
\* once the dispatch loop has been left
C13_NoContextNoLoad ==
    WithContext = {} =>
        /\ pc \notin GlPcs
        /\ glLog = <<>>
        /\ currentCtx = None
        /\ Functions = NullTable
        /\ ResultTag \in {"running", "Ok", "Borrow", "BorrowMut"}
        /\ (pc = "done" /\ sweeps > 0) => ResultTag = "Ok"

\* C13 witness: run returned Ok from the dispatch loop with windows in the
\* map, none of them with a graphics context, and the table all null
C13_Witness ==
    /\ pc = "done"
    /\ ResultTag = "Ok"
    /\ nPolled > 0
    /\ DOMAIN windows # {}
    /\ WithContext = {}
    /\ Functions = NullTable

\* C14: the device context is taken from, and released to, the window with the
\* smallest id among those with a graphics context, and a context that is made
\* current (the null of the unbinding call apart) is the context of that
\* window; with no such window none of these calls is made and no context is
\* current
C14_FirstWithContextElected ==
    /\ \A i \in DOMAIN glLog :
         /\ WithContext # {}
         /\ glLog[i].call \in {"GetDC", "ReleaseDC"} => glLog[i].arg = MinId(WithContext)
         /\ (glLog[i].call = "wglMakeCurrent" /\ glLog[i].arg # 0) =>
                Some(glLog[i].arg) = windows[MinId(WithContext)].gl_context
    /\ pc \in GlPcs => WithContext # {}
    /\ currentCtx # None =>
         WithContext # {} /\ currentCtx = windows[MinId(WithContext)].gl_context
    /\ WithContext = {} => (glLog = <<>> /\ currentCtx = None /\ pc \notin GlPcs)

\* C14 witness: the first window of the map has no graphics context, the
\* second has one, and the context of the second is the current one
C14_Witness ==
    /\ DOMAIN windows = {1, 2}
    /\ windows[1].gl_context = None
    /\ windows[2].gl_context # None
    /\ pc = "load"
    /\ currentCtx = windows[2].gl_context
    /\ glLog[1] = GlCall("GetDC", TRUE, 2)

C16_TableBuiltAtMostOnce ==
    [][/\ LoadCalls' <= 1
       /\ LoadCalls' # LoadCalls => (pc = "load" /\ LoadCalls = 0)
       /\ Functions' # Functions => (pc = "load" /\ LoadCalls = 0 /\ LoadCalls' = 1)
       /\ pc \in {"snapshot", "poll", "check"} => (gl' = gl /\ glLog' = glLog)]_vars

\* C16 witness: the dispatch loop is in its second iteration with the table
\* that the one load of the startup built
C16_Witness ==
    /\ pc = "poll"
    /\ sweeps = 2
    /\ LoadCalls = 1
    /\ Functions # NullTable

\* ------------------------------------- the end of run
\* how many times handle h was given to FreeLibrary
FreeCount(h) == Cardinality({i \in DOMAIN freed : freed[i] = h})

\* C17: when run has returned from the dispatch loop, no strong reference to
\* the runtime is left and every library handle it owns was freed once
C17_RuntimeDroppedOnReturn ==
    (pc = "done" /\ ResultTag = "Ok") =>
        /\ strong = 0
        /\ \A i \in DOMAIN DropApplicationData : FreeCount(DropApplicationData[i]) = 1

\* C18: in the dispatch loop every window of the map is a live native window,
\* and a fresh snapshot holds no handle of a destroyed window
C18_ClosedWindowLeavesMap ==
    pc \in {"snapshot", "poll", "check"} =>
        /\ DOMAIN windows \subseteq native
        /\ (pc = "poll" /\ idx = 1) => \A i \in DOMAIN hwnds : hwnds[i] \in native

\* C19: DwmFunctions::initialize leaves no table or a table with the library
\* handle and three entries that are each present or absent, and in every case
\* run goes on, with no result, to the OpenGL library, the runtime and the
\* creation of the windows
C19_CompositorOptional ==
    [][/\ (pc = "dwm" /\ pc' # pc) =>
            /\ pc' = "gl"
            /\ result' = None
            /\ \/ dwm' = None
               \/ /\ IsSome(dwm')
                  /\ Unwrap(dwm')._dwmapi_dll_handle # 0
                  /\ Unwrap(dwm').DwmEnableBlurBehindWindow \in BOOLEAN
                  /\ Unwrap(dwm').DwmExtendFrameIntoClientArea \in BOOLEAN
                  /\ Unwrap(dwm').DwmDefWindowProc \in BOOLEAN
       /\ (pc = "gl" /\ pc' # pc) => (pc' = "build" /\ result' = None /\ dwm' = dwm)
       /\ (pc = "build" /\ pc' # pc) =>
            (pc' \in {"create", "create_root"} /\ result' = None /\ dwm' = dwm)]_vars

\* C19 witness: the library was found with one symbol present and two absent,
\* and the root window was created
C19_Witness ==
    /\ IsSome(dwm)
    /\ Unwrap(dwm).DwmEnableBlurBehindWindow
    /\ ~Unwrap(dwm).DwmExtendFrameIntoClientArea
    /\ ~Unwrap(dwm).DwmDefWindowProc
    /\ pc = "insert_root"

\* C20: the step that registers the window class goes on to the compositor
\* library with no result, and changes nothing but the record of the outcome,
\* so that nothing run does afterwards tells one outcome from the other
C20_RegisterOutcomeIgnored ==
    [][(pc = "register" /\ pc' # pc) =>
         /\ pc' = "dwm"
         /\ result' = None
         /\ UNCHANGED <<nWindows, hinstance, dwm, gl, built>>
         /\ UNCHANGED <<borrowVars, createVars, showVars, loopVars, glVars, optVars, rcVars>>]_vars

\* C20 witness: the registration failed and run returned Ok from the dispatch
\* loop after polling a window
C20_Witness == classReg = "failed" /\ pc = "done" /\ ResultTag = "Ok" /\ nPolled > 0

\* ------------------------------------- the optional-value wrappers
\* the wrapper that the conversion of the native value gives
Wrapped == From_Option(optArm, optIn)

\* C21: for a wrapper of any arm and any value of it, is_some is the negation
\* of is_none and tells the variant, as_option is None exactly for the None
\* variant, as_mut_option is present exactly when as_option is, and the
\* default is the None variant
C21_WrapperQueries ==
    /\ is_some(optW) = ~is_none(optW)
    /\ is_some(optW) <=> optW # WNone
    /\ (as_option(optW) = None) <=> (optW = WNone)
    /\ IsSome(as_mut_option(optW)) <=> IsSome(as_option(optW))
    /\ Default = WNone
    /\ is_none(Default) /\ as_option(Default) = None

\* C21 witness: a wrapper of the "move" arm holds the payload 0 that was
\* written through as_mut_option
C21_Witness == optPc = "written" /\ optArm = "move" /\ optW = WSome(0) /\ is_some(optW)

DllHandle == Unwrap(gl)._opengl32_dll_handle

PolledIn(k) ==
    LET ps == SelectSeq(polled, LAMBDA p : p.sweep = k)
    IN [i \in 1..Len(ps) |-> ps[i].hwnd]

\* sequence p is the beginning of sequence q
IsPrefix(p, q) == Len(p) <= Len(q) /\ p = SubSeq(q, 1, Len(p))

\* C24: an iteration starts with both vectors empty; the snapshot is the keys
\* of the map in ascending order; the handles polled in the iteration are the
\* snapshot up to the position of the for loop, one status is collected and
\* one message dispatched per poll, and an iteration that was followed by
\* another polled the whole snapshot
C24_SweepPollsSnapshot ==
    /\ pc = "snapshot" => (hwnds = <<>> /\ results = <<>>)
    /\ pc \in {"poll", "check"} =>
         /\ hwnds = SortedSeq(DOMAIN windows)
         /\ PolledIn(sweeps) = SubSeq(hwnds, 1, idx - 1)
         /\ Len(results) = idx - 1
         /\ pc = "check" => idx = Len(hwnds) + 1
    /\ Len(polled) = nPolled
    /\ nDispatched = nPolled
    /\ \A i \in DOMAIN polled : polled[i].sweep \in 1..sweeps
    /\ \A k \in 1..sweeps :
         /\ IsPrefix(PolledIn(k), SortedSeq(DOMAIN windows))
         /\ k < sweeps => PolledIn(k) = SortedSeq(DOMAIN windows)

\* C24 witness: the second iteration has polled both windows of the map, as
\* the first did
C24_Witness ==
    /\ pc = "check"
    /\ sweeps = 2
    /\ hwnds = <<1, 2>>
    /\ PolledIn(1) = <<1, 2>>
    /\ PolledIn(2) = <<1, 2>>
    /\ Len(results) = 2

\* ------------------------------------- the graphics loading step
\* the names of the calls of lines 131..139 made so far, in order
GlCallNames == [i \in DOMAIN glLog |-> glLog[i].call]

\* the calls of a complete loading step, in the order of the claim
LoadingStep == <<"GetDC", "wglMakeCurrent", "load", "wglMakeCurrent", "ReleaseDC">>

\* the device contexts obtained and not released
HeldDCs ==
    Cardinality({i \in DOMAIN glLog : glLog[i].call = "GetDC" /\ glLog[i].ok})
    - Cardinality({i \in DOMAIN glLog : glLog[i].call = "ReleaseDC"})

ShownCount(h) == Cardinality({i \in DOMAIN shown : shown[i] = h})

C27_KeyIsHandle ==
    /\ \A k \in DOMAIN windows : windows[k].hwnd = k
    /\ Cardinality(DOMAIN windows) = Cardinality({windows[k].hwnd : k \in DOMAIN windows})
    /\ DOMAIN windows \subseteq Created
    /\ (pending = None /\ ResultTag # "BorrowMut") => DOMAIN windows = Created
    /\ IsSome(pending) => DOMAIN windows = Created \ {Unwrap(pending).hwnd}

\* C27 witness: two windows with the handles 1 and 2 are the entries 1 and 2
C27_Witness ==
    /\ DOMAIN windows = {1, 2}
    /\ windows[1].hwnd = 1
    /\ windows[2].hwnd = 2
    /\ pc = "elect"

\* ------------------------------------- polling by sweeps
\* the polls i < j are two consecutive polls of the same window
ConsecutivePolls(i, j) ==
    /\ i < j
    /\ polled[i].hwnd = polled[j].hwnd
    /\ \A m \in (i + 1)..(j - 1) : polled[m].hwnd # polled[i].hwnd

\* C28: no window is polled twice in one iteration, and between two
\* consecutive polls of a window every other window of the map is polled
\* exactly once
C28_PolledOncePerSweep ==
    /\ \A i, j \in DOMAIN polled :
         (i # j /\ polled[i].sweep = polled[j].sweep) => polled[i].hwnd # polled[j].hwnd
    /\ \A i, j \in DOMAIN polled :
         ConsecutivePolls(i, j) =>
            \A h \in DOMAIN windows \ {polled[i].hwnd} :
                Cardinality({m \in (i + 1)..(j - 1) : polled[m].hwnd = h}) = 1

\* C28 witness: of two windows the first was polled in the first and in the
\* second iteration, and the second once in between
C28_Witness ==
    /\ DOMAIN windows = {1, 2}
    /\ Len(polled) = 3
    /\ polled[1] = [sweep |-> 1, hwnd |-> 1]
    /\ polled[2] = [sweep |-> 1, hwnd |-> 2]
    /\ polled[3] = [sweep |-> 2, hwnd |-> 1]

\* ------------------------------------- the end of the dispatch loop
\* a status that is not positive has been collected in the current iteration
NonPositiveCollected ==
    pc \in {"poll", "check"} /\ \E i \in DOMAIN results : ~(results[i] > 0)

\* C29: the loop is left only at the end of an iteration that collected a
\* status that is not positive or polled nothing, or at a snapshot whose
\* borrow is refused; a status that is not positive is never carried into
\* another iteration; and once one is collected run returns
C29_LoopStops ==
    /\ [][/\ (pc \in {"snapshot", "poll", "check"} /\ pc' = "done") =>
               \/ pc = "check" /\ ((\E i \in DOMAIN results : ~(results[i] > 0)) \/ hwnds = <<>>)
               \/ pc = "snapshot" /\ ~TryBorrowOk(borrowFlag)
          /\ NonPositiveCollected => (sweeps' = sweeps /\ pc' \in {"poll", "check", "done"})]_vars
    /\ NonPositiveCollected ~> (pc = "done" /\ ResultTag = "Ok")

\* C29 witness: run has returned from the second iteration, in which the
\* first window was polled with a status that is not positive and the second
\* was polled after it
C29_Witness ==
    /\ pc = "done"
    /\ ResultTag = "Ok"
    /\ sweeps = 2
    /\ Len(results) = 2
    /\ ~(results[1] > 0)

CallbackFlag == IF cbExcl THEN -1 ELSE cbShared

\* C31: where Window::create is called, and where it has returned a window
\* that is not inserted yet, run holds no borrow of the runtime (the RefCell
\* shows the borrows taken through leaked clones alone, and none before the
\* first call); run holds its exclusive borrow exactly while windows are left
\* to show, from before the first show() to the last, and while it does the
\* RefCell grants neither a shared nor an exclusive borrow
C31_BorrowsOfStartup ==
    /\ pc \in {"create", "insert", "create_root", "insert_root"} =>
         /\ ~runExcl
         /\ borrowFlag = CallbackFlag
    /\ leaked = 0 => borrowFlag = 0
    /\ runExcl <=> pc = "show"
    /\ showQueue # <<>> <=> pc = "show"
    /\ pc = "show" =>
         /\ borrowFlag = -1
         /\ CallbackFlag = 0
         /\ ~TryBorrowOk(borrowFlag)
         /\ ~TryBorrowMutOk(borrowFlag)
         /\ shown \o showQueue = SortedSeq(DOMAIN windows)

\* C31 witness: between the show() of the first window and the show() of the
\* second, with clones leaked for a callback to borrow through
C31_Witness ==
    /\ pc = "show"
    /\ Len(shown) = 1
    /\ Len(showQueue) = 1
    /\ runExcl
    /\ leaked = 2

\* ------------------------------------- what run returns
\* C32: run has a result exactly when it is over, and the result is Ok or one
\* of NoAppInstance, Borrow and BorrowMut, whatever the creation attempts and
\* the registration of the class gave; NoAppInstance comes before the runtime
\* is built, Borrow and BorrowMut after it and before the dispatch loop, from
\* a borrow that a holder was in the way of; while the loop runs there is no
\* result, and a run that started an iteration returns Ok
C32_ErrorsOfRun ==
    /\ result # None <=> pc = "done"
    /\ ResultTag \in {"running", "Ok", "NoAppInstance", "Borrow", "BorrowMut"}
    /\ ResultTag \notin {"WindowCreationFailed", "Create", "Gl"}
    /\ ResultTag = "NoAppInstance" => (~built /\ attempts = <<>>)
    /\ ResultTag \in {"Borrow", "BorrowMut"} =>
         /\ built
         /\ sweeps = 0
         /\ CallbackFlag # 0
    /\ ResultTag = "Borrow" => cbExcl
    /\ pc \in {"snapshot", "poll", "check"} => result = None
    /\ (pc = "done" /\ sweeps > 0) => ResultTag = "Ok"

\* C32 witness: the registration of the class failed, the creation of the root
\* window failed, and run returned Ok from the second iteration of the loop
C32_Witness ==
    /\ pc = "done"
    /\ ResultTag = "Ok"
    /\ sweeps = 2
    /\ classReg = "failed"
    /\ attempts[Len(attempts)] = [cfg |-> 0, hwnd |-> 0]

\* ------------------------------------- the references to the runtime
\* the handles run holds itself: app_data_inner and application_data
RunHandles == 2

\* C33: every call of Window::create, with a window or with an error, leaks
\* one clone and adds one strong reference; no other step leaks one, and no
\* step before the return of run takes a reference away; while run is under
\* way the runtime has the two references of run and one per creation
\* attempt, and so it has where run leaves the dispatch loop, where the two of
\* run end and the leaked ones stay
C33_EveryCreateLeaksOneClone ==
    [][/\ leaked' = Len(attempts')
       /\ attempts' # attempts =>
            /\ attempts' = Append(attempts, attempts'[Len(attempts')])
            /\ leaked' = leaked + 1
            /\ strong' = strong + 1
       /\ attempts' = attempts => leaked' = leaked
       /\ pc' # "done" => strong' >= strong
       /\ (built' /\ pc' # "done") => strong' = RunHandles + Len(attempts')
       /\ (pc \in {"snapshot", "check"} /\ pc' = "done") =>
            /\ strong = RunHandles + Len(attempts)
            /\ strong' = Len(attempts)
            /\ freed' = <<>>]_vars

\* C33 witness: run returned from the dispatch loop after one creation failed
\* and one succeeded, and both clones are still referenced
C33_Witness ==
    /\ pc = "done"
    /\ ResultTag = "Ok"
    /\ Len(attempts) = 2
    /\ attempts[1].hwnd = 0
    /\ attempts[2].hwnd # 0
    /\ leaked = 2
    /\ strong = 2

NoDeviceContext == glLog # <<>> /\ glLog[1].call = "GetDC" /\ ~glLog[1].ok

\* C35: when GetDC returned null for the elected window, that call is the only
\* native call of lines 131..139 that is made (no wglMakeCurrent, no load, no
\* ReleaseDC), no context is current, every entry of the table is null, and
\* run is at the show loop or past it with no result, or over with Ok, or
\* with the BorrowMut of the borrow of the show loop and no window shown
C35_NoDeviceContextSkipsLoading ==
    NoDeviceContext =>
        /\ WithContext # {}
        /\ glLog = <<GlCall("GetDC", FALSE, MinId(WithContext))>>
        /\ \A i \in DOMAIN glLog : glLog[i].call \notin {"wglMakeCurrent", "load", "ReleaseDC"}
        /\ LoadCalls = 0
        /\ HeldDCs = 0
        /\ currentCtx = None
        /\ Functions = NullTable
        /\ pc \in {"show_begin", "show", "snapshot", "poll", "check", "done"}
        /\ pc # "done" => result = None
        /\ ResultTag \in {"running", "Ok", "BorrowMut"}
        /\ ResultTag = "BorrowMut" => (shown = <<>> /\ sweeps = 0 /\ CallbackFlag # 0)
        /\ (InLoop \/ nPolled > 0) => shown = SortedSeq(DOMAIN windows)

\* C35 witness: GetDC returned null for a window with a graphics context, the
\* windows were shown and polled, and run returned Ok
C35_Witness ==
    /\ NoDeviceContext
    /\ pc = "done"
    /\ ResultTag = "Ok"
    /\ Len(shown) = 2
    /\ nPolled > 0
    /\ Cardinality(WithContext) = 2

\* ------------------------------------- opengl32.dll not loaded
\* GlFunctions::initialize has run and LoadLibraryW had returned null
LibraryMissing == IsSome(gl) /\ Unwrap(gl)._opengl32_dll_handle = None

\* the context the loader ran with: what wglMakeCurrent had made current
LoadedWithContext ==
    \E i \in DOMAIN glLog : glLog[i].call = "wglMakeCurrent" /\ glLog[i].arg # 0 /\ glLog[i].ok

\* C36: GlFunctions::initialize always returns a value, with the library
\* handle or without and with every entry null, and run goes on with no
\* result; without the handle, the table is all null until load has run, load
\* gives every symbol the answer of the context resolver and null where the
\* resolver has none, whatever the export table holds, and the drop of the
\* value gives no handle to FreeLibrary, and none was given
C36_LibraryMissing ==
    /\ pc = "build" =>
         /\ IsSome(gl)
         /\ Unwrap(gl)._opengl32_dll_handle \in {None, Some(2)}
         /\ Functions = NullTable
         /\ result = None
    /\ LibraryMissing =>
         /\ LoadCalls = 0 => Functions = NullTable
         /\ JustLoaded => \A s \in Symbols : Functions[s] = ResolverAnswer(s)
         /\ LoadCalls = 1 =>
              \A s \in Symbols :
                  Functions[s] = IF LoadedWithContext THEN wglProcs[s] ELSE 0
         /\ \A s \in Symbols : Functions[s] \notin DllAddrs \ {0}
         /\ GlFunctions_drop(Unwrap(gl)) = <<>>
         /\ \A i \in DOMAIN DropApplicationData : DropApplicationData[i] \notin {0, 2}
         /\ freed = <<>>
         /\ ResultTag \in {"running", "Borrow"}

\* C36 witness: without the library, load ran with a context current; the
\* symbol the resolver misses is null although the export table has it, and
\* the symbol the resolver knows has the resolver's address
C36_Witness ==
    /\ LibraryMissing
    /\ JustLoaded
    /\ currentCtx # None
    /\ wglProcs["glAccum"] = 0
    /\ dllExports["glAccum"] = 2
    /\ Functions["glAccum"] = 0
    /\ wglProcs["glActiveTexture"] = 1
    /\ Functions["glActiveTexture"] = 1

====
